---- MODULE Spec2Model ----
(***************************************************************************)
(* Flight Reliability dashboard (src/app/streamlit/app.py).                *)
(*                                                                         *)
(* The Streamlit script is re-executed top to bottom on every widget       *)
(* change: it loads the flight table through the st.cache_data memo,       *)
(* reads the five sidebar widgets, filters the table, computes the KPI     *)
(* record and the per-hour aggregate.  One action of the model is one      *)
(* complete script run.                                                    *)
(*                                                                         *)
(* Encoding.  A nullable cell is a sequence of length <= 1: <<>> is the    *)
(* null of polars / None of Python, <<v>> a present value.  A text cell is *)
(* a sequence of one-character strings, so that slicing (flight[:2]) and   *)
(* concatenation are the operations the code performs.  A decimal rounded  *)
(* to one place is held as its number of tenths (33.3 is 333).  A float    *)
(* mean that the code does not round is held as the exact fraction         *)
(* <<numerator, denominator>>.                                             *)
(***************************************************************************)
EXTENDS Integers, Sequences, FiniteSets, TLC

VARIABLES
    disk,        \* path -> rows of the CSV file at that path
    cache,       \* st.cache_data memo of load_data: path -> normalized table
    reads,       \* path -> number of pl.read_csv executions on that path
    path,        \* argument of the latest load_data call (<<>> before any)
    hit,         \* whether that call was answered from the memo
    df,          \* value returned by the latest load_data call
    started,     \* whether the script has run at least once
    mode,        \* module global `mode`
    orig,        \* module global `orig`
    dest,        \* module global `dest`
    carrier,     \* module global `carrier`
    flight,      \* module global `flight`
    fdf,         \* module global `fdf`
    metrics,     \* module global `metrics`
    hour_stats,  \* module global `hour_stats` (<<>> when the branch is skipped)
    raised       \* exception that ended the latest run, "none" if it completed

vars == <<disk, cache, reads, path, hit, df, started, mode, orig, dest, carrier,
          flight, fdf, metrics, hour_stats, raised>>

----------------------------------------------------------------------------
(* Bounds of the model *)

MaxRows == 2

(* Program constants *)

OnTimeLimit == 15

Null == <<>>
Some(v) == <<v>>

DATA_PATH == "data/samples/flights_sample.csv"
OTHER_PATH == "data/samples/other.csv"
Paths == {DATA_PATH, OTHER_PATH}

----------------------------------------------------------------------------
(* Text *)

Alphabet ==
    <<"0","1","2","3","4","5","6","7","8","9",
      "A","B","C","D","E","F","G","H","I","J","K","L","M",
      "N","O","P","Q","R","S","T","U","V","W","X","Y","Z">>

Ord(c) == CHOOSE i \in 1..Len(Alphabet) : Alphabet[i] = c

\* Python's ordering of str, used by sorted(): lexicographic by code point.
RECURSIVE StrLess(_, _)
StrLess(a, b) ==
    IF b = <<>> THEN FALSE
    ELSE IF a = <<>> THEN TRUE
    ELSE IF Head(a) # Head(b) THEN Ord(Head(a)) < Ord(Head(b))
    ELSE StrLess(Tail(a), Tail(b))

RECURSIVE SortedStrs(_)
SortedStrs(S) ==
    IF S = {} THEN <<>>
    ELSE LET m == CHOOSE x \in S : \A y \in S \ {x} : StrLess(x, y)
         IN  <<m>> \o SortedStrs(S \ {m})

\* cast(pl.Utf8) of a non-negative integer: its decimal digits.
RECURSIVE Utf8(_)
Utf8(n) ==
    IF n < 10 THEN <<Alphabet[n + 1]>>
    ELSE Utf8(n \div 10) \o <<Alphabet[(n % 10) + 1]>>

\* Python slices s[:k] and s[k:], which never fail on a short string.
Prefix(s, k) == SubSeq(s, 1, IF Len(s) < k THEN Len(s) ELSE k)
Suffix(s, k) == SubSeq(s, k + 1, Len(s))

Range(s) == {s[i] : i \in 1..Len(s)}

----------------------------------------------------------------------------
(* load_data *)

hhmm_to_minutes(s) == (s \div 100) * 60 + (s % 100)

\* Variant of MinutesCol: a missing clock value is read as 0.
MinutesCol_nullAsZero(cell) ==
    IF cell = Null THEN Some(0) ELSE Some(hhmm_to_minutes(cell[1]))

\* map_elements skips nulls: a null cell stays null.
MinutesCol(cell) == IF cell = Null THEN Null ELSE Some(hhmm_to_minutes(cell[1]))

\* Variant of OnTimeCol: a missing delay is classified as on time.
OnTimeCol_nullOnTime(cell) ==
    IF cell = Null THEN Some(1)
    ELSE Some(IF cell[1] <= OnTimeLimit THEN 1 ELSE 0)

\* (pl.col("ArrDelayMinutes") <= 15).cast(pl.Int8): a comparison with null is null.
OnTimeCol(cell) ==
    IF cell = Null THEN Null
    ELSE Some(IF cell[1] <= OnTimeLimit THEN 1 ELSE 0)

\* pl.col("CRSDepMin") // 60
DepHourCol(cell) == IF cell = Null THEN Null ELSE Some(cell[1] \div 60)

NormalizeRow(r) ==
    LET m == MinutesCol(r.CRSDepTime)
    IN  [Origin |-> r.Origin,
         Dest |-> r.Dest,
         Operating_Airline |-> r.Operating_Airline,
         Flight_Number_Operating_Airline |-> r.Flight_Number_Operating_Airline,
         CRSDepTime |-> r.CRSDepTime,
         ArrDelayMinutes |-> r.ArrDelayMinutes,
         Cancelled |-> r.Cancelled,
         CRSDepMin |-> m,
         OnTime |-> OnTimeCol(r.ArrDelayMinutes),
         CancelledFlag |-> r.Cancelled,
         DepHour |-> DepHourCol(m)]

\* Body of load_data: read the file, add the derived columns row by row.
Normalize(rows) == [i \in 1..Len(rows) |-> NormalizeRow(rows[i])]

----------------------------------------------------------------------------
(* Sidebar option lists (lines 36-52) *)

RecognizedModes == {"airport", "route", "airline_at_airport", "flight"}

\* A value of `mode` that filter_df has no branch for.
OtherMode == "other"

flight_id(r) == r.Operating_Airline \o Utf8(r.Flight_Number_Operating_Airline)

airports(t) == SortedStrs({r.Origin : r \in Range(t)} \cup {r.Dest : r \in Range(t)})
airlines(t) == SortedStrs({r.Operating_Airline : r \in Range(t)})
flight_ids(t) == SortedStrs({flight_id(r) : r \in Range(t)})

\* index=options.index(preferred) if preferred in options else 0
DefaultOption(options, preferred) ==
    IF preferred \in Range(options) THEN preferred ELSE options[1]

----------------------------------------------------------------------------
(* filter_df (lines 56-68) *)

\* Variant of filter_df: the route branch forgets the destination.
filter_df_routeOriginOnly(t, m, o, d, c, f) ==
    LET Airport(r) == r.Origin = o
        AirlineAtAirport(r) == r.Origin = o /\ r.Operating_Airline = c
        Flight(r) == /\ r.Operating_Airline = Prefix(f, 2)
                     /\ Utf8(r.Flight_Number_Operating_Airline) = Suffix(f, 2)
    IN  IF m = "airport" THEN SelectSeq(t, Airport)
        ELSE IF m = "route" THEN SelectSeq(t, Airport)
        ELSE IF m = "airline_at_airport" THEN SelectSeq(t, AirlineAtAirport)
        ELSE IF m = "flight" THEN SelectSeq(t, Flight)
        ELSE t

\* Variant of filter_df: the flight branch cuts a three-character carrier.
filter_df_carrier3(t, m, o, d, c, f) ==
    LET Airport(r) == r.Origin = o
        Route(r) == r.Origin = o /\ r.Dest = d
        AirlineAtAirport(r) == r.Origin = o /\ r.Operating_Airline = c
        Flight(r) == /\ r.Operating_Airline = Prefix(f, 3)
                     /\ Utf8(r.Flight_Number_Operating_Airline) = Suffix(f, 3)
    IN  IF m = "airport" THEN SelectSeq(t, Airport)
        ELSE IF m = "route" THEN SelectSeq(t, Route)
        ELSE IF m = "airline_at_airport" THEN SelectSeq(t, AirlineAtAirport)
        ELSE IF m = "flight" THEN SelectSeq(t, Flight)
        ELSE t

filter_df(t, m, o, d, c, f) ==
    LET Airport(r) == r.Origin = o
        Route(r) == r.Origin = o /\ r.Dest = d
        AirlineAtAirport(r) == r.Origin = o /\ r.Operating_Airline = c
        f_car == Prefix(f, 2)
        f_no == Suffix(f, 2)
        Flight(r) == /\ r.Operating_Airline = f_car
                     /\ Utf8(r.Flight_Number_Operating_Airline) = f_no
    IN  IF m = "airport" THEN SelectSeq(t, Airport)
        ELSE IF m = "route" THEN SelectSeq(t, Route)
        ELSE IF m = "airline_at_airport" THEN SelectSeq(t, AirlineAtAirport)
        ELSE IF m = "flight" THEN SelectSeq(t, Flight)
        ELSE t

----------------------------------------------------------------------------
(* Column aggregates of polars: nulls are skipped *)

RECURSIVE ColSum(_, _)
ColSum(t, col) ==
    IF t = <<>> THEN 0
    ELSE (IF Head(t)[col] = Null THEN 0 ELSE Head(t)[col][1]) + ColSum(Tail(t), col)

RECURSIVE ColCount(_, _)
ColCount(t, col) ==
    IF t = <<>> THEN 0
    ELSE (IF Head(t)[col] = Null THEN 0 ELSE 1) + ColCount(Tail(t), col)

\* Series.sum(): the sum of the non-null cells, 0 when there is none.
SeriesSum(t, col) == ColSum(t, col)

\* Variant of SeriesMean: a null cell counts as 0 in the mean.
SeriesMean_nullAsZero(t, col) ==
    IF Len(t) = 0 THEN Null ELSE Some(<<ColSum(t, col), Len(t)>>)

\* Series.mean() / pl.mean(): the exact mean of the non-null cells as the
\* fraction <<sum, count>>, null when there is none.
SeriesMean(t, col) ==
    IF ColCount(t, col) = 0 THEN Null
    ELSE Some(<<ColSum(t, col), ColCount(t, col)>>)

\* Python round(num / den, 1) in tenths, for num >= 0 and den > 0: to the
\* nearest tenth, an exact tie to the even tenth.
PyRound1(num, den) ==
    LET q == (10 * num) \div den
        r == (10 * num) % den
    IN  IF 2 * r < den THEN q
        ELSE IF 2 * r > den THEN q + 1
        ELSE IF q % 2 = 0 THEN q ELSE q + 1

\* polars Expr.round(1) in tenths, for num >= 0 and den > 0: to the nearest
\* tenth, an exact tie away from zero.
PlRound1(num, den) ==
    LET q == (10 * num) \div den
        r == (10 * num) % den
    IN  IF 2 * r < den THEN q ELSE q + 1

----------------------------------------------------------------------------
(* compute_metrics (lines 73-85) *)

\* Variant of compute_metrics: no early return, an empty subset reports zeros.
compute_metrics_zeroOnEmpty(t) ==
    LET n == Len(t)
        avg_delay == SeriesMean(t, "ArrDelayMinutes")
    IN  [n |-> n,
         on_time_pct |-> Some(IF n = 0 THEN 0
                              ELSE PyRound1(SeriesSum(t, "OnTime") * 100, n)),
         avg_delay |-> IF avg_delay # Null
                       THEN Some(PyRound1(avg_delay[1][1], avg_delay[1][2]))
                       ELSE Null,
         cancel_rate |-> Some(IF n = 0 THEN 0
                              ELSE PyRound1(SeriesSum(t, "CancelledFlag") * 100, n))]

compute_metrics(t) ==
    LET n == Len(t)
        on_time == SeriesSum(t, "OnTime")
        cancels == SeriesSum(t, "CancelledFlag")
        avg_delay == SeriesMean(t, "ArrDelayMinutes")
    IN  IF n = 0
        THEN [n |-> 0, on_time_pct |-> Null, avg_delay |-> Null, cancel_rate |-> Null]
        ELSE [n |-> n,
              on_time_pct |-> Some(PyRound1(on_time * 100, n)),
              avg_delay |-> IF avg_delay # Null
                            THEN Some(PyRound1(avg_delay[1][1], avg_delay[1][2]))
                            ELSE Null,
              cancel_rate |-> Some(PyRound1(cancels * 100, n))]

----------------------------------------------------------------------------
(* hour_stats (lines 108-121) *)

\* Order of sort("DepHour"): the null key first, then ascending.
HourLess(a, b) ==
    \/ a = Null /\ b # Null
    \/ a # Null /\ b # Null /\ a[1] < b[1]

RECURSIVE SortedHours(_)
SortedHours(S) ==
    IF S = {} THEN <<>>
    ELSE LET m == CHOOSE x \in S : \A y \in S \ {x} : HourLess(x, y)
         IN  <<m>> \o SortedHours(S \ {m})

\* One group of group_by("DepHour").agg([...]).with_columns([...]).
HourGroup(t, h) ==
    LET InGroup(r) == r.DepHour = h
        g == SelectSeq(t, InGroup)
        on_time_rate == SeriesMean(g, "OnTime")
    IN  [DepHour |-> h,
         flights_n |-> Len(g),
         on_time_rate |-> on_time_rate,
         avg_arr_delay |-> SeriesMean(g, "ArrDelayMinutes"),
         on_time_pct |-> IF on_time_rate = Null THEN Null
                         ELSE Some(PlRound1(on_time_rate[1][1] * 100,
                                            on_time_rate[1][2]))]

\* Variant of GroupByDepHour: no sort, the groups come in order of first
\* appearance.
RECURSIVE FirstSeen(_)
FirstSeen(t) ==
    IF t = <<>> THEN <<>>
    ELSE LET rest == FirstSeen(SubSeq(t, 1, Len(t) - 1))
             h == t[Len(t)].DepHour
         IN  IF h \in Range(rest) THEN rest ELSE Append(rest, h)

GroupByDepHour_unsorted(t) ==
    LET keys == FirstSeen(t)
    IN  [i \in 1..Len(keys) |-> HourGroup(t, keys[i])]

\* group_by keeps the null key as a group of its own; sort fixes the order.
GroupByDepHour(t) ==
    LET keys == SortedHours({r.DepHour : r \in Range(t)})
    IN  [i \in 1..Len(keys) |-> HourGroup(t, keys[i])]

\* The aggregate is computed only under `if fdf.height > 0`.
HourStats(t) == IF Len(t) > 0 THEN GroupByDepHour(t) ELSE <<>>

----------------------------------------------------------------------------
(* Contents of the CSV file: the bounded input space *)

JFK == <<"J", "F", "K">>
LAX == <<"L", "A", "X">>
AA == <<"A", "A">>
AAL == <<"A", "A", "L">>

AirportCodes == {JFK, LAX}
AirlineCodes == {AA, AAL}
FlightNumbers == {100, 101}

\* Scheduled departures of the aggregation inputs: null, 08:00 and 15:15.
SampleClocks == {Null, Some(800), Some(1515)}

\* Every hour of the day at a few minutes past, and the null cell.
DayClocks == {Null} \cup {Some(h * 100 + m) : h \in 0..23, m \in {0, 15, 30, 59}}

\* Arrival delays: null, on the on-time limit, just above it.
SampleDelays == {Null, Some(OnTimeLimit), Some(OnTimeLimit + 1)}

RowSpace(O, D, A, N, T, L, C) ==
    [Origin : O, Dest : D, Operating_Airline : A,
     Flight_Number_Operating_Airline : N,
     CRSDepTime : T, ArrDelayMinutes : L, Cancelled : C]

\* Rows that differ in the columns the filters read, two columns at a time.
KeyRows ==
    LET T == {Some(800)}
        L == {Some(5)}
        C == {Some(0)}
    IN  RowSpace(AirportCodes, AirportCodes, {AA}, {100}, T, L, C)
        \cup RowSpace(AirportCodes, {LAX}, AirlineCodes, {100}, T, L, C)
        \cup RowSpace({JFK}, {LAX}, AirlineCodes, FlightNumbers, T, L, C)

\* Rows that differ in the columns the aggregates read; a cancelled flight
\* has no arrival delay.
MeasureRows ==
    {r \in RowSpace({JFK}, {LAX}, {AA}, {100}, SampleClocks, SampleDelays,
                    {Some(0), Some(1)}) :
        r.Cancelled = Some(1) => r.ArrDelayMinutes = Null}

\* Rows that differ in the arrival delay only: null, 0, 5 and 20 minutes.
DelayRows ==
    RowSpace({JFK}, {LAX}, {AA}, {100}, {Some(800)},
             {Null, Some(0), Some(5), Some(20)}, {Some(0)})

\* Rows that differ in the scheduled departure only.
ClockRows == RowSpace({JFK}, {LAX}, {AA}, {100}, DayClocks, {Some(5)}, {Some(0)})

TablesOver(S, n) == UNION {[1..k -> S] : k \in 1..n}

SampleTables ==
    TablesOver(KeyRows, MaxRows) \cup TablesOver(MeasureRows, MaxRows)
        \cup TablesOver(DelayRows, MaxRows + 2) \cup TablesOver(ClockRows, 1)

----------------------------------------------------------------------------
(* load_data under @st.cache_data (lines 10-28) *)

\* Variant of load_data: the decorator is missing, every call reads the file.
load_data_uncached(p) ==
    LET t == Normalize(disk[p])
    IN  [table |-> t,
         hit |-> FALSE,
         cache |-> [cache EXCEPT ![p] = Some(t)],
         reads |-> [reads EXCEPT ![p] = @ + 1]]

\* One call load_data(p): the memo is keyed by the argument; on a miss the
\* body runs (one pl.read_csv) and its result is stored.
load_data(p) ==
    IF cache[p] # Null
    THEN [table |-> cache[p][1], hit |-> TRUE, cache |-> cache, reads |-> reads]
    ELSE LET t == Normalize(disk[p])
         IN  [table |-> t,
              hit |-> FALSE,
              cache |-> [cache EXCEPT ![p] = Some(t)],
              reads |-> [reads EXCEPT ![p] = @ + 1]]

----------------------------------------------------------------------------
(* The script *)

\* One execution of app.py with the given widget values.
ScriptRun(m, o, d, c, f) ==
    LET ld == load_data(DATA_PATH)
        sub == filter_df(ld.table, m, o, d, c, f)
    IN  /\ path' = Some(DATA_PATH)
        /\ hit' = ld.hit
        /\ df' = ld.table
        /\ cache' = ld.cache
        /\ reads' = ld.reads
        /\ started' = TRUE
        /\ mode' = m
        /\ orig' = o
        /\ dest' = d
        /\ carrier' = c
        /\ flight' = f
        /\ fdf' = sub
        /\ metrics' = compute_metrics(sub)
        /\ hour_stats' = HourStats(sub)
        /\ raised' = "none"
        /\ UNCHANGED disk

\* First run of a session: every widget shows its default.
Start ==
    /\ ~started
    /\ LET t == load_data(DATA_PATH).table
       IN  ScriptRun("airport",
                     DefaultOption(airports(t), JFK),
                     DefaultOption(airports(t), LAX),
                     airlines(t)[1],
                     flight_ids(t)[1])

\* The user changes one widget; Streamlit reruns the script, the other
\* widgets keep their values.
SelectMode(m) ==
    /\ started /\ m # mode
    /\ ScriptRun(m, orig, dest, carrier, flight)

SelectOrigin(o) ==
    /\ started /\ o # orig
    /\ ScriptRun(mode, o, dest, carrier, flight)

SelectDest(d) ==
    /\ started /\ d # dest
    /\ ScriptRun(mode, orig, d, carrier, flight)

SelectCarrier(c) ==
    /\ started /\ c # carrier
    /\ ScriptRun(mode, orig, dest, c, flight)

SelectFlight(f) ==
    /\ started /\ f # flight
    /\ ScriptRun(mode, orig, dest, carrier, f)

\* filter_df evaluated with `mode` holding none of its four strings.
SelectOtherMode ==
    /\ started /\ mode # OtherMode
    /\ ScriptRun(OtherMode, orig, dest, carrier, flight)

EmptyMetrics ==
    [n |-> 0, on_time_pct |-> Null, avg_delay |-> Null, cancel_rate |-> Null]

InitSession ==
    /\ cache = [p \in Paths |-> Null]
    /\ reads = [p \in Paths |-> 0]
    /\ path = Null
    /\ hit = FALSE
    /\ df = <<>>
    /\ started = FALSE
    /\ mode = "airport"
    /\ orig = <<>>
    /\ dest = <<>>
    /\ carrier = <<>>
    /\ flight = <<>>
    /\ fdf = <<>>
    /\ metrics = EmptyMetrics
    /\ hour_stats = <<>>
    /\ raised = "none"

Init ==
    /\ \E t \in SampleTables :
          disk = [p \in Paths |-> IF p = DATA_PATH THEN t ELSE <<>>]
    /\ InitSession

Next ==
    \/ Start
    \/ \E m \in RecognizedModes : SelectMode(m)
    \/ \E o \in Range(airports(df)) : SelectOrigin(o)
    \/ \E d \in Range(airports(df)) : SelectDest(d)
    \/ \E c \in Range(airlines(df)) : SelectCarrier(c)
    \/ \E f \in Range(flight_ids(df)) : SelectFlight(f)
    \/ SelectOtherMode

Spec == Init /\ [][Next]_vars

----------------------------------------------------------------------------
(* load_data called on its own, with the files changing underneath *)

LoadData(p) ==
    LET ld == load_data(p)
    IN  /\ path' = Some(p)
        /\ hit' = ld.hit
        /\ df' = ld.table
        /\ cache' = ld.cache
        /\ reads' = ld.reads
        /\ UNCHANGED <<disk, started, mode, orig, dest, carrier, flight, fdf,
                       metrics, hour_stats, raised>>

\* Another process replaces the file at p.
FileRewritten(p, rows) ==
    /\ disk[p] # rows
    /\ disk' = [disk EXCEPT ![p] = rows]
    /\ UNCHANGED <<cache, reads, path, hit, df, started, mode, orig, dest,
                   carrier, flight, fdf, metrics, hour_stats, raised>>

FileContents == TablesOver(DelayRows, 1)

InitLoad ==
    /\ disk \in [Paths -> FileContents]
    /\ InitSession

NextLoad ==
    \/ \E p \in Paths : LoadData(p)
    \/ \E p \in Paths, rows \in FileContents : FileRewritten(p, rows)

SpecLoad == InitLoad /\ [][NextLoad]_vars

----------------------------------------------------------------------------
(* Properties *)

Abs(x) == IF x < 0 THEN -x ELSE x

\* p tenths is num / den to one decimal place: no tenth is nearer.
ToOneDecimal(p, num, den) == 2 * Abs(p * den - 10 * num) <= den

Present(t, col) == {i \in 1..Len(t) : t[i][col] # Null}

RECURSIVE SumOver(_, _, _)
SumOver(t, col, I) ==
    IF I = {} THEN 0
    ELSE LET i == CHOOSE j \in I : TRUE
         IN  t[i][col][1] + SumOver(t, col, I \ {i})

\* Rows of t whose arrival delay is present and at most 15 minutes.
OnTimeRows(t) ==
    {i \in 1..Len(t) : t[i].ArrDelayMinutes # Null /\ t[i].ArrDelayMinutes[1] <= 15}

\* C1: a selection that matches no row yields n = 0 with on_time_pct,
\* avg_delay and cancel_rate all null (none of them zero), an empty hourly
\* aggregate, and no error.
C1_EmptySelection ==
    (started /\ Len(fdf) = 0) =>
        /\ metrics.n = 0
        /\ metrics.on_time_pct = Null
        /\ metrics.avg_delay = Null
        /\ metrics.cancel_rate = Null
        /\ hour_stats = <<>>
        /\ raised = "none"

C1_Witness ==
    /\ started
    /\ mode = "route"
    /\ Len(df) = 2
    /\ fdf = <<>>
    /\ metrics.n = 0

\* C2: on a non-empty subset of n rows, on_time_pct is, to one decimal,
\* 100 * (rows with a present delay <= 15) / n; n counts every row, a row
\* with a missing delay is in the denominator and not in the numerator.
C2_OnTimePct ==
    (started /\ Len(fdf) > 0) =>
        /\ metrics.n = Len(fdf)
        /\ metrics.on_time_pct # Null
        /\ ToOneDecimal(metrics.on_time_pct[1],
                        100 * Cardinality(OnTimeRows(fdf)), Len(fdf))

C2_Witness ==
    /\ started
    /\ Len(fdf) = 3
    /\ Cardinality(Present(fdf, "ArrDelayMinutes")) = 2
    /\ Cardinality(OnTimeRows(fdf)) = 1
    /\ metrics.on_time_pct = Some(333)

\* C3: on a non-empty subset, avg_delay is, to one decimal, the mean of the
\* delays that are present (a missing delay is in neither the sum nor the
\* divisor), and null when every delay of the subset is missing.
C3_AvgDelay ==
    (started /\ Len(fdf) > 0) =>
        LET I == Present(fdf, "ArrDelayMinutes")
        IN  IF I = {} THEN metrics.avg_delay = Null
            ELSE /\ metrics.avg_delay # Null
                 /\ ToOneDecimal(metrics.avg_delay[1],
                                 SumOver(fdf, "ArrDelayMinutes", I),
                                 Cardinality(I))

C3_Witness ==
    /\ started
    /\ Len(fdf) = 4
    /\ Cardinality(Present(fdf, "ArrDelayMinutes")) = 3
    /\ SumOver(fdf, "ArrDelayMinutes", Present(fdf, "ArrDelayMinutes")) = 25
    /\ metrics.avg_delay = Some(83)

\* The filter predicate of the selection, as the mode table states it.
Selected(r) ==
    CASE mode = "airport" -> r.Origin = orig
      [] mode = "route" -> r.Origin = orig /\ r.Dest = dest
      [] mode = "airline_at_airport" ->
            r.Origin = orig /\ r.Operating_Airline = carrier
      [] mode = "flight" ->
            \E k \in 0..Len(flight) :
                /\ k = 2 \/ (k < 2 /\ k = Len(flight))
                /\ r.Operating_Airline = SubSeq(flight, 1, k)
                /\ Utf8(r.Flight_Number_Operating_Airline)
                       = SubSeq(flight, k + 1, Len(flight))

\* C4: in each of the four modes the subset is exactly the rows of the
\* table that satisfy the mode's predicate, in their original order; the
\* flight string is cut into its first two characters and the rest; a
\* selection that matches nothing gives n = 0 and no error.
C4_FilterPredicate ==
    (started /\ mode \in RecognizedModes) =>
        /\ fdf = SelectSeq(df, Selected)
        /\ metrics.n = Len(fdf)
        /\ raised = "none"

C4_Witness ==
    /\ started
    /\ mode = "airline_at_airport"
    /\ Len(df) = 2
    /\ fdf = <<df[2]>>
    /\ df[1] # df[2]

\* C5: with a mode that is none of the four, the run fails with an error
\* and never yields a result computed over the unfiltered table.
C5_UnknownModeFails ==
    (started /\ mode \notin RecognizedModes) =>
        /\ raised # "none"
        /\ fdf # df

\* Buckets of the subset: the distinct DepHour cells, the null cell included.
Buckets(t) == {t[i].DepHour : i \in 1..Len(t)}

\* C6: on a non-empty subset the hourly aggregate has exactly one row per
\* distinct bucket of the subset, no bucket twice, the buckets strictly
\* ascending (the missing bucket, if any, first), each row counting the
\* subset rows of its bucket, so that the counts sum to n.
C6_HourlyRows ==
    (started /\ Len(fdf) > 0) =>
        /\ {hour_stats[i].DepHour : i \in 1..Len(hour_stats)} = Buckets(fdf)
        /\ Len(hour_stats) = Cardinality(Buckets(fdf))
        /\ \A i, j \in 1..Len(hour_stats) :
              i < j => /\ hour_stats[j].DepHour # Null
                       /\ hour_stats[i].DepHour # Null
                              => hour_stats[i].DepHour[1] < hour_stats[j].DepHour[1]
        /\ \A i \in 1..Len(hour_stats) :
              hour_stats[i].flights_n
                  = Cardinality({k \in 1..Len(fdf) :
                                     fdf[k].DepHour = hour_stats[i].DepHour})
        /\ SumOver([i \in 1..Len(hour_stats) |->
                        [flights_n |-> Some(hour_stats[i].flights_n)]],
                   "flights_n", 1..Len(hour_stats)) = Len(fdf)

C6_Witness ==
    /\ started
    /\ Len(fdf) = 2
    /\ fdf[1].DepHour = Some(15)
    /\ fdf[2].DepHour = Some(8)
    /\ Len(hour_stats) = 2
    /\ hour_stats[1].DepHour = Some(8)

\* C7: every row of the hourly aggregate has, to one decimal, the on-time
\* percentage 100 * (rows of the bucket with a present delay <= 15) / (all
\* rows of the bucket, a missing delay included); so with the whole subset
\* in one bucket it is the on_time_pct of the metrics record.
C7_HourlyOnTimePct ==
    (started /\ Len(fdf) > 0) =>
        /\ \A i \in 1..Len(hour_stats) :
              LET InBucket(r) == r.DepHour = hour_stats[i].DepHour
                  g == SelectSeq(fdf, InBucket)
              IN  /\ hour_stats[i].on_time_pct # Null
                  /\ ToOneDecimal(hour_stats[i].on_time_pct[1],
                                  100 * Cardinality(OnTimeRows(g)), Len(g))
        /\ Len(hour_stats) = 1 => hour_stats[1].on_time_pct = metrics.on_time_pct

\* C8: each path is read and normalized at most once; a call for a path
\* already loaded returns the table of the first call without reading the
\* file again, whatever the file holds by then; a first call for a path
\* returns the table of that path's file.
C8_LoadOnce ==
    [][\A p \in Paths :
          /\ reads[p] <= 1 /\ reads'[p] <= 1
          /\ cache[p] # Null =>
                /\ cache'[p] = cache[p]
                /\ reads'[p] = reads[p]
                /\ path' = Some(p) => df' = cache[p][1]
          /\ (cache[p] = Null /\ path' = Some(p)) =>
                /\ reads[p] = 0 /\ reads'[p] = 1
                /\ df' = Normalize(disk[p])
                /\ cache'[p] = Some(df')]_vars

C8_Witness ==
    /\ path = Some(DATA_PATH)
    /\ hit
    /\ reads[DATA_PATH] = 1
    /\ df # Normalize(disk[DATA_PATH])
    /\ cache[OTHER_PATH] # Null
    /\ cache[OTHER_PATH] # cache[DATA_PATH]

\* C9: a row with a scheduled departure hh:mm (clock value 100 * hh + mm,
\* hh in 0..23, mm in 0..59) has scheduledDepartureMinutes
\* = (value div 100) * 60 + (value mod 100) = 60 * hh + mm and
\* departureHourBucket = hh, an integer in 0..23; a row with the clock
\* value missing has both fields missing, not 0.
C9_DerivedClockFields ==
    \A i \in 1..Len(df) :
        LET r == df[i] IN
        IF r.CRSDepTime = Null
        THEN r.CRSDepMin = Null /\ r.DepHour = Null
        ELSE LET v == r.CRSDepTime[1] IN
             /\ r.CRSDepMin = Some((v \div 100) * 60 + (v % 100))
             /\ r.DepHour = Some(r.CRSDepMin[1] \div 60)
             /\ r.DepHour[1] \in 0..23
             /\ \E hh \in 0..23, mm \in 0..59 :
                   /\ v = 100 * hh + mm
                   /\ r.CRSDepMin = Some(60 * hh + mm)
                   /\ r.DepHour = Some(hh)

C9_Witness ==
    /\ Len(df) = 2
    /\ df[1].CRSDepTime = Null
    /\ df[2].CRSDepTime = Some(1515)
    /\ df[2].CRSDepMin = Some(915)
    /\ df[2].DepHour = Some(15)

\* C10 as stated: selecting a flight identifier built from a row returns a
\* subset that contains the row, whatever the length of its airline code.
C10_RoundTripAnyLength ==
    (started /\ mode = "flight") =>
        \A i \in 1..Len(df) :
            flight_id(df[i]) = flight => df[i] \in Range(fdf)

\* C10 amended: selecting a flight identifier built from a row whose
\* airline code has exactly two characters returns a subset that contains
\* the row, so n >= 1.
C10_RoundTripTwoChars ==
    (started /\ mode = "flight") =>
        /\ flight \in Range(flight_ids(df))
        /\ \A i \in 1..Len(df) :
              (flight_id(df[i]) = flight /\ Len(df[i].Operating_Airline) = 2)
                  => (df[i] \in Range(fdf) /\ metrics.n >= 1)

C10_Witness ==
    /\ started
    /\ mode = "flight"
    /\ Len(df) = 2
    /\ flight_id(df[2]) = flight
    /\ df[2].Operating_Airline = AA
    /\ fdf = <<df[2]>>

====
